---- MODULE Spec2Model ----
(***************************************************************************)
(* Model of the reminder tool handlers of mcp-server-apple-events:         *)
(*   - tools/handlers/reminderHandlers.ts (create / read / update / delete *)
(*     handlers, the shared formatters and handleAsyncOperation),          *)
(*   - server/http.ts (the HTTP/SSE transport).                            *)
(*                                                                         *)
(* Strings are sequences of one-character strings, so that template        *)
(* literals, concatenation and join are computed character by character.   *)
(* An optional value (a field that may be undefined) is a sequence of      *)
(* length 0 (undefined) or 1 (the value).                                  *)
(***************************************************************************)
EXTENDS Integers, Sequences, FiniteSets, TLC

VARIABLES
    env,        \* process.env: NODE_ENV and DEBUG, each undefined or a string
    store,      \* the OS reminder store behind the helper: id -> record
    nextId,     \* number of ids the store has assigned so far
    deleted,    \* ids removed by a successful delete
    last,       \* the most recent handler invocation and what it returned
    transport,  \* http.ts: the `transport` variable of startHttpServer
    conns,      \* http.ts: SSE connections opened so far, conns[i] = owning client
    posts,      \* http.ts: POST /message requests answered so far
    fmtRec,     \* the record handed to the formatter
    fmtLines,   \* the lines formatReminderMarkdown rendered for fmtRec
    fmtPhase    \* "drawn" or "rendered"

vars == <<env, store, nextId, deleted, last, transport, conns, posts, fmtRec, fmtLines, fmtPhase>>

(***************************************************************************)
(* String literals of the source, one character per element.              *)
(***************************************************************************)
\* "[x]"
CheckboxDone == <<"[","x","]">>
\* "[ ]"
CheckboxOpen == <<"["," ","]">>
\* "- "
ItemDash == <<"-"," ">>
\* " "
Space == <<" ">>
\* "  - List: "
ListLabel == <<" "," ","-"," ","L","i","s","t",":"," ">>
\* "  - ID: "
IdLabel == <<" "," ","-"," ","I","D",":"," ">>
\* "  - Notes: "
NotesLabel == <<" "," ","-"," ","N","o","t","e","s",":"," ">>
\* "  - Due: "
DueLabel == <<" "," ","-"," ","D","u","e",":"," ">>
\* "  - URL: "
UrlLabel == <<" "," ","-"," ","U","R","L",":"," ">>
\* "\n"
NL == <<"\n">>
\* "    "
NotesIndent == <<" "," "," "," ">>
\* "### Reminder"
ReminderHeading == <<"#","#","#"," ","R","e","m","i","n","d","e","r">>
\* "Reminders"
RemindersTitle == <<"R","e","m","i","n","d","e","r","s">>
\* "No reminders found matching the criteria."
EmptyMessage == <<"N","o"," ","r","e","m","i","n","d","e","r","s"," ","f","o","u","n","d"," ","m","a","t","c","h","i","n","g"," ","t","h","e"," ","c","r","i","t","e","r","i","a",".">>
\* "### "
HeadingMark == <<"#","#","#"," ">>
\* " (Total: "
TotalOpen == <<" ","(","T","o","t","a","l",":"," ">>
\* ")"
TotalClose == <<")">>
\* "Successfully "
Successfully == <<"S","u","c","c","e","s","s","f","u","l","l","y"," ">>
\* "Successfully updated "
SuccessfullyUpdated == <<"S","u","c","c","e","s","s","f","u","l","l","y"," ","u","p","d","a","t","e","d"," ">>
\* " to"
ToWord == <<" ","t","o">>
\* "created"
CreatedWord == <<"c","r","e","a","t","e","d">>
\* "updated"
UpdatedWord == <<"u","p","d","a","t","e","d">>
\* "reminder"
ReminderWord == <<"r","e","m","i","n","d","e","r">>
\* "list"
ListWord == <<"l","i","s","t">>
\* " \""
OpenQuote == <<" ","\"">>
\* "\".\n- ID: "
CloseQuoteIdLine == <<"\"",".","\n","-"," ","I","D",":"," ">>
\* "Successfully deleted "
SuccessfullyDeleted == <<"S","u","c","c","e","s","s","f","u","l","l","y"," ","d","e","l","e","t","e","d"," ">>
\* "with ID"
WithId == <<"w","i","t","h"," ","I","D">>
\* ": "
ColonSpace == <<":"," ">>
\* "\""
Quote == <<"\"">>
\* "."
Period == <<".">>
\* "System error occurred"
SystemErrorOccurred == <<"S","y","s","t","e","m"," ","e","r","r","o","r"," ","o","c","c","u","r","r","e","d">>
\* "Failed to "
FailedTo == <<"F","a","i","l","e","d"," ","t","o"," ">>
\* "create reminder"
OpCreate == <<"c","r","e","a","t","e"," ","r","e","m","i","n","d","e","r">>
\* "update reminder"
OpUpdate == <<"u","p","d","a","t","e"," ","r","e","m","i","n","d","e","r">>
\* "delete reminder"
OpDelete == <<"d","e","l","e","t","e"," ","r","e","m","i","n","d","e","r">>
\* "read reminders"
OpRead == <<"r","e","a","d"," ","r","e","m","i","n","d","e","r","s">>
\* "title"
FieldTitle == <<"t","i","t","l","e">>
\* "id"
FieldId == <<"i","d">>
\* "dueDate"
FieldDueDate == <<"d","u","e","D","a","t","e">>
\* ": Required"
RequiredSuffix == <<":"," ","R","e","q","u","i","r","e","d">>
\* ": Invalid date format"
InvalidDateSuffix == <<":"," ","I","n","v","a","l","i","d"," ","d","a","t","e"," ","f","o","r","m","a","t">>
\* "Reminder not found: "
NotFoundPrefix == <<"R","e","m","i","n","d","e","r"," ","n","o","t"," ","f","o","u","n","d",":"," ">>
\* "permission denied"
PermissionDenied == <<"p","e","r","m","i","s","s","i","o","n"," ","d","e","n","i","e","d">>
\* "store unavailable"
StoreUnavailable == <<"s","t","o","r","e"," ","u","n","a","v","a","i","l","a","b","l","e">>
\* "Cannot read properties of undefined"
UndefinedRead == <<"C","a","n","n","o","t"," ","r","e","a","d"," ","p","r","o","p","e","r","t","i","e","s"," ","o","f"," ","u","n","d","e","f","i","n","e","d">>
\* "Buy milk"
TitleBuyMilk == <<"B","u","y"," ","m","i","l","k">>
\* "Call Bob"
TitleCallBob == <<"C","a","l","l"," ","B","o","b">>
\* "2 litres"
NoteA == <<"2"," ","l","i","t","r","e","s">>
\* "line1\nline2"
NoteB == <<"l","i","n","e","1","\n","l","i","n","e","2">>
\* "https://a.io"
UrlA == <<"h","t","t","p","s",":","/","/","a",".","i","o">>
\* "Work"
ListWork == <<"W","o","r","k">>
\* "Home"
ListHome == <<"H","o","m","e">>
\* "2025-11-18 15:00:00"
DateA == <<"2","0","2","5","-","1","1","-","1","8"," ","1","5",":","0","0",":","0","0">>
\* "2025-12-01"
DateB == <<"2","0","2","5","-","1","2","-","0","1">>
\* "tomorrow-ish"
DateBad == <<"t","o","m","o","r","r","o","w","-","i","s","h">>
\* "ZZZ999"
IdUnknown == <<"Z","Z","Z","9","9","9">>
\* "ABC"
IdPrefix == <<"A","B","C">>
\* "milk"
SearchMilk == <<"m","i","l","k">>
\* "note"
FieldNote == <<"n","o","t","e">>
\* "url"
FieldUrl == <<"u","r","l">>
\* "completed"
FieldCompleted == <<"c","o","m","p","l","e","t","e","d">>
\* "targetList"
FieldTargetList == <<"t","a","r","g","e","t","L","i","s","t">>
\* "filterList"
FieldFilterList == <<"f","i","l","t","e","r","L","i","s","t">>
\* "showCompleted"
FieldShowCompleted == <<"s","h","o","w","C","o","m","p","l","e","t","e","d">>
\* "search"
FieldSearch == <<"s","e","a","r","c","h">>
\* "dueWithin"
FieldDueWithin == <<"d","u","e","W","i","t","h","i","n">>
\* ": Expected boolean"
InvalidBooleanSuffix == <<":"," ","E","x","p","e","c","t","e","d"," ","b","o","o","l","e","a","n">>
\* "development"
Development == <<"d","e","v","e","l","o","p","m","e","n","t">>
\* "production"
Production == <<"p","r","o","d","u","c","t","i","o","n">>
\* "1"
DebugOn == <<"1">>
\* ": Expected string"
InvalidStringSuffix == <<":"," ","E","x","p","e","c","t","e","d"," ","s","t","r","i","n","g">>
\* "create"
ActionCreate == <<"c","r","e","a","t","e">>
\* "read"
ActionRead == <<"r","e","a","d">>
\* "update"
ActionUpdate == <<"u","p","d","a","t","e">>
\* "delete"
ActionDelete == <<"d","e","l","e","t","e">>

(***************************************************************************)
(* Optional values and JavaScript truthiness of an optional string.        *)
(***************************************************************************)
None == <<>>

Some(v) == <<v>>

IsSome(o) == Len(o) = 1

\* `if (x)` for x : string | undefined -- undefined and "" are both falsy
Truthy(o) == IsSome(o) /\ Len(o[1]) > 0

(***************************************************************************)
(* String helpers: Array.prototype.join, String(number),                   *)
(* String.prototype.replace(/\n/g, ...).                                   *)
(***************************************************************************)
RECURSIVE Join(_, _)
Join(lines, sep) ==
    IF Len(lines) = 0 THEN <<>>
    ELSE IF Len(lines) = 1 THEN lines[1]
    ELSE lines[1] \o sep \o Join(Tail(lines), sep)

DigitChar(d) == <<"0", "1", "2", "3", "4", "5", "6", "7", "8", "9">>[d + 1]

RECURSIVE ToDecimal(_)
ToDecimal(n) ==
    IF n < 10 THEN <<DigitChar(n)>>
    ELSE ToDecimal(n \div 10) \o <<DigitChar(n % 10)>>

RECURSIVE ReplaceNewlines(_, _)
ReplaceNewlines(s, by) ==
    IF Len(s) = 0 THEN <<>>
    ELSE (IF Head(s) = "\n" THEN by ELSE <<Head(s)>>) \o ReplaceNewlines(Tail(s), by)

\* utils/helpers.ts formatMultilineNotes: continuation lines of a note are
\* indented under the "Notes:" item
formatMultilineNotes(notes) == ReplaceNewlines(notes, NL \o NotesIndent)

(***************************************************************************)
(* reminderHandlers.ts: the formatters.                                    *)
(***************************************************************************)
\* the due date is pushed under the URL label
formatReminderMarkdown_dueUnderUrlLabel(reminder) ==
    LET checkbox == IF reminder.isCompleted THEN CheckboxDone ELSE CheckboxOpen
    IN  <<ItemDash \o checkbox \o Space \o reminder.title>>
        \o (IF Truthy(reminder.list) THEN <<ListLabel \o reminder.list[1]>> ELSE <<>>)
        \o (IF Truthy(reminder.id) THEN <<IdLabel \o reminder.id[1]>> ELSE <<>>)
        \o (IF Truthy(reminder.notes)
               THEN <<NotesLabel \o formatMultilineNotes(reminder.notes[1])>> ELSE <<>>)
        \o (IF Truthy(reminder.dueDate) THEN <<UrlLabel \o reminder.dueDate[1]>> ELSE <<>>)
        \o (IF Truthy(reminder.url) THEN <<UrlLabel \o reminder.url[1]>> ELSE <<>>)

formatReminderMarkdown(reminder) ==
    LET checkbox == IF reminder.isCompleted THEN CheckboxDone ELSE CheckboxOpen
        l1 == <<ItemDash \o checkbox \o Space \o reminder.title>>
        l2 == IF Truthy(reminder.list) THEN l1 \o <<ListLabel \o reminder.list[1]>> ELSE l1
        l3 == IF Truthy(reminder.id) THEN l2 \o <<IdLabel \o reminder.id[1]>> ELSE l2
        l4 == IF Truthy(reminder.notes)
                 THEN l3 \o <<NotesLabel \o formatMultilineNotes(reminder.notes[1])>>
                 ELSE l3
        l5 == IF Truthy(reminder.dueDate) THEN l4 \o <<DueLabel \o reminder.dueDate[1]>> ELSE l4
        l6 == IF Truthy(reminder.url) THEN l5 \o <<UrlLabel \o reminder.url[1]>> ELSE l5
    IN  l6

RECURSIVE FormatItems(_, _)
\* items.forEach((item) => lines.push(...formatItem(item)))
FormatItems(items, lines) ==
    IF Len(items) = 0 THEN lines
    ELSE FormatItems(Tail(items), lines \o formatReminderMarkdown(Head(items)))

\* the empty message is pushed whatever the number of items
formatListMarkdown_alwaysEmptyMessage(title, items, emptyMessage) ==
    Join(FormatItems(items,
            <<HeadingMark \o title \o TotalOpen \o ToDecimal(Len(items)) \o TotalClose,
              <<>>, emptyMessage>>), NL)

formatListMarkdown(title, items, emptyMessage) ==
    LET lines == <<HeadingMark \o title \o TotalOpen \o ToDecimal(Len(items)) \o TotalClose,
                   <<>>>>
    IN  Join(IF Len(items) = 0 THEN Append(lines, emptyMessage)
             ELSE FormatItems(items, lines), NL)

\* title and id interpolated in each other's place
formatSuccessMessage_swapsTitleAndId(action, itemType, title, id) ==
    LET actionText == IF action = CreatedWord THEN CreatedWord ELSE UpdatedWord
        prefix == IF action = UpdatedWord /\ itemType = ListWord
                     THEN SuccessfullyUpdated \o itemType \o ToWord
                     ELSE Successfully \o actionText \o Space \o itemType
    IN  prefix \o OpenQuote \o id \o CloseQuoteIdLine \o title

formatSuccessMessage(action, itemType, title, id) ==
    LET actionText == IF action = CreatedWord THEN CreatedWord ELSE UpdatedWord
        prefix == IF action = UpdatedWord /\ itemType = ListWord
                     THEN SuccessfullyUpdated \o itemType \o ToWord
                     ELSE Successfully \o actionText \o Space \o itemType
    IN  prefix \o OpenQuote \o title \o CloseQuoteIdLine \o id

\* options: [useQuotes, useIdPrefix, usePeriod, useColon], each an optional boolean
formatDeleteMessage(itemType, identifier, options) ==
    LET Default(o) == IF IsSome(o) THEN o[1] ELSE TRUE
        useQuotes == Default(options.useQuotes)
        useIdPrefix == Default(options.useIdPrefix)
        usePeriod == Default(options.usePeriod)
        useColon == Default(options.useColon)
        formattedId == IF useQuotes THEN Quote \o identifier \o Quote ELSE identifier
        idPart == IF useIdPrefix
                     THEN WithId \o (IF useColon THEN ColonSpace ELSE Space) \o formattedId
                     ELSE formattedId
        period == IF usePeriod THEN Period ELSE <<>>
    IN  SuccessfullyDeleted \o itemType \o Space \o idPart \o period

(***************************************************************************)
(* Raw tool arguments: every key of RemindersToolArgs holds an optional    *)
(* JSON value, tagged with its runtime type.                               *)
(***************************************************************************)
StringValue(s) == [type |-> "string", v |-> s]

BooleanValue(b) == [type |-> "boolean", v |-> b]

\* a JSON number, held as its decimal digits
NumberValue(n) == [type |-> "number", v |-> ToDecimal(n)]

ArgKeys ==
    {"action", "id", "title", "note", "url", "completed", "targetList", "dueDate",
     "filterList", "showCompleted", "search", "dueWithin"}

NoArgs == [k \in ArgKeys |-> None]

\* `if (x)` for a raw JSON value
RawTruthy(o) ==
    /\ IsSome(o)
    /\ o[1].type = "string" => Len(o[1].v) > 0
    /\ o[1].type = "boolean" => o[1].v
    /\ o[1].type = "number" => o[1].v # <<"0">>

(***************************************************************************)
(* Errors: what a stage raises.  instanceOfError is `error instanceof      *)
(* Error`; for a thrown non-Error value `message` holds the value itself.  *)
(***************************************************************************)
NoError == [class |-> "none", instanceOfError |-> FALSE, message |-> <<>>]

ValidationError(message) ==
    [class |-> "ValidationError", instanceOfError |-> TRUE, message |-> message]

NotFoundError(id) ==
    [class |-> "NotFoundError", instanceOfError |-> TRUE, message |-> NotFoundPrefix \o id]

HelperExecutionError(stderr) ==
    [class |-> "HelperExecutionError", instanceOfError |-> TRUE, message |-> stderr]

TypeError(message) ==
    [class |-> "TypeError", instanceOfError |-> TRUE, message |-> message]

ThrownValue(value) ==
    [class |-> "value", instanceOfError |-> FALSE, message |-> value]

(***************************************************************************)
(* validation/schemas.ts: the per-operation schemas and validateInput.     *)
(* A rule is [name, label, type, required, format].                        *)
(***************************************************************************)
Rule(name, label, type, required, format) ==
    [name |-> name, label |-> label, type |-> type, required |-> required,
     format |-> format]

CreateReminderSchema ==
    << Rule("title", FieldTitle, "string", TRUE, "text"),
       Rule("note", FieldNote, "string", FALSE, "text"),
       Rule("url", FieldUrl, "string", FALSE, "text"),
       Rule("targetList", FieldTargetList, "string", FALSE, "text"),
       Rule("dueDate", FieldDueDate, "string", FALSE, "date") >>

UpdateReminderSchema ==
    << Rule("id", FieldId, "string", TRUE, "text"),
       Rule("title", FieldTitle, "string", FALSE, "text"),
       Rule("note", FieldNote, "string", FALSE, "text"),
       Rule("url", FieldUrl, "string", FALSE, "text"),
       Rule("completed", FieldCompleted, "boolean", FALSE, "text"),
       Rule("targetList", FieldTargetList, "string", FALSE, "text"),
       Rule("dueDate", FieldDueDate, "string", FALSE, "date") >>

DeleteReminderSchema == << Rule("id", FieldId, "string", TRUE, "text") >>

ReadRemindersSchema ==
    << Rule("id", FieldId, "string", FALSE, "text"),
       Rule("filterList", FieldFilterList, "string", FALSE, "text"),
       Rule("showCompleted", FieldShowCompleted, "boolean", FALSE, "text"),
       Rule("search", FieldSearch, "string", FALSE, "text"),
       Rule("dueWithin", FieldDueWithin, "string", FALSE, "text") >>

IsDigit(c) == c \in {"0", "1", "2", "3", "4", "5", "6", "7", "8", "9"}

\* the ISO-like pattern YYYY-MM-DD, optionally followed by " HH:mm:ss"
IsDateTime(s) ==
    /\ Len(s) \in {10, 19}
    /\ \A i \in {1, 2, 3, 4, 6, 7, 9, 10} : IsDigit(s[i])
    /\ s[5] = "-" /\ s[8] = "-"
    /\ Len(s) = 19 =>
          /\ s[11] = " " /\ s[14] = ":" /\ s[17] = ":"
          /\ \A i \in {12, 13, 15, 16, 18, 19} : IsDigit(s[i])

\* the reason a rule rejects the value o, or <<>> when it accepts it
RuleFailure(rule, o) ==
    IF ~IsSome(o) THEN (IF rule.required THEN RequiredSuffix ELSE <<>>)
    ELSE IF o[1].type # rule.type
        THEN (IF rule.type = "boolean" THEN InvalidBooleanSuffix ELSE InvalidStringSuffix)
    ELSE IF rule.format = "date" /\ ~IsDateTime(o[1].v) THEN InvalidDateSuffix
    ELSE <<>>

validateInput(schema, rest) ==
    LET bad == {i \in 1..Len(schema) :
                    RuleFailure(schema[i], rest[schema[i].name]) # <<>>}
        first == CHOOSE i \in bad : \A j \in bad : i <= j
        names == {schema[i].name : i \in 1..Len(schema)}
    IN  IF bad # {}
        THEN [ok |-> FALSE, value |-> <<>>,
              error |-> ValidationError(schema[first].label
                            \o RuleFailure(schema[first], rest[schema[first].name]))]
        ELSE [ok |-> TRUE,
              value |-> [n \in names |->
                            IF IsSome(rest[n]) THEN Some(rest[n][1].v) ELSE None],
              error |-> NoError]

\* const { action: _, ...rest } = args ?? {}; return validateInput(schema, rest)
extractAndValidateArgs(args, schema) ==
    validateInput(schema, [k \in (DOMAIN args) \ {"action"} |-> args[k]])

(***************************************************************************)
(* utils/reminderRepository.ts over the OS store.  st = [store, nextId];   *)
(* store[k] is the optional record with id IdOf(k).  A repository call     *)
(* yields [threw, error, value, st]; value is optional because a call may  *)
(* resolve with undefined.  `fault` is what the helper does on this call:  *)
(* "none", "error1"/"error2" (exits non-zero with that stderr), "value" (a  *)
(* non-Error value is thrown) or "undefined" (resolves with undefined).     *)
(***************************************************************************)
IdOf(k) == IdPrefix \o ToDecimal(k)

Raised(error, st) == [threw |-> TRUE, error |-> error, value |-> None, st |-> st]

Resolved(value, st) == [threw |-> FALSE, error |-> NoError, value |-> value, st |-> st]

HelperFails(fault) == fault \in {"error1", "error2", "value"}

HelperFailure(fault) ==
    IF fault = "error1" THEN HelperExecutionError(PermissionDenied)
    ELSE IF fault = "error2" THEN HelperExecutionError(StoreUnavailable)
    ELSE ThrownValue(PermissionDenied)

Slots(st) == DOMAIN st.store

SlotOf(st, id) == {k \in Slots(st) : IsSome(st.store[k]) /\ st.store[k][1].id = Some(id)}

createReminder(data, fault, st) ==
    IF HelperFails(fault) THEN Raised(HelperFailure(fault), st)
    ELSE LET k == st.nextId + 1
             reminder == [id |-> Some(IdOf(k)), title |-> data.title,
                          isCompleted |-> FALSE, notes |-> data.notes, url |-> data.url,
                          list |-> data.list, dueDate |-> data.dueDate]
         IN  Resolved(Some(reminder),
                      [store |-> [st.store EXCEPT ![k] = Some(reminder)], nextId |-> k])

\* only the fields present in data are changed
updateReminder(data, fault, st) ==
    IF HelperFails(fault) THEN Raised(HelperFailure(fault), st)
    ELSE IF SlotOf(st, data.id) = {} THEN Raised(NotFoundError(data.id), st)
    ELSE LET k == CHOOSE s \in SlotOf(st, data.id) : TRUE
             old == st.store[k][1]
             Keep(new, was) == IF IsSome(new) THEN new ELSE was
             reminder == [id |-> old.id,
                          title |-> IF IsSome(data.newTitle) THEN data.newTitle[1]
                                    ELSE old.title,
                          isCompleted |-> IF IsSome(data.isCompleted)
                                          THEN data.isCompleted[1] ELSE old.isCompleted,
                          notes |-> Keep(data.notes, old.notes),
                          url |-> Keep(data.url, old.url),
                          list |-> Keep(data.list, old.list),
                          dueDate |-> Keep(data.dueDate, old.dueDate)]
         IN  Resolved(Some(reminder),
                      [st EXCEPT !.store = [st.store EXCEPT ![k] = Some(reminder)]])

deleteReminder(id, fault, st) ==
    IF HelperFails(fault) THEN Raised(HelperFailure(fault), st)
    ELSE IF SlotOf(st, id) = {} THEN Raised(NotFoundError(id), st)
    ELSE LET k == CHOOSE s \in SlotOf(st, id) : TRUE
         IN  Resolved(None, [st EXCEPT !.store = [st.store EXCEPT ![k] = None]])

findReminderById(id, fault, st) ==
    IF HelperFails(fault) THEN Raised(HelperFailure(fault), st)
    ELSE IF fault = "undefined" THEN Resolved(None, st)
    ELSE IF SlotOf(st, id) = {} THEN Raised(NotFoundError(id), st)
    ELSE Resolved(Some(st.store[CHOOSE s \in SlotOf(st, id) : TRUE][1]), st)

Contains(s, sub) ==
    \E i \in 1..(Len(s) - Len(sub) + 1) : SubSeq(s, i, i + Len(sub) - 1) = sub

\* filters: containing list, completion status, free-text search over title and notes
Matches(reminder, filters) ==
    /\ IsSome(filters.list) => reminder.list = filters.list
    /\ filters.showCompleted = Some(TRUE) \/ ~reminder.isCompleted
    /\ IsSome(filters.search) =>
          \/ Contains(reminder.title, filters.search[1])
          \/ IsSome(reminder.notes) /\ Contains(reminder.notes[1], filters.search[1])

RECURSIVE Matching(_, _, _)
\* the matching records of slots k, k+1, ... in store order
Matching(st, filters, k) ==
    IF k \notin Slots(st) THEN <<>>
    ELSE (IF IsSome(st.store[k]) /\ Matches(st.store[k][1], filters)
             THEN <<st.store[k][1]>> ELSE <<>>)
         \o Matching(st, filters, k + 1)

findReminders(filters, fault, st) ==
    IF HelperFails(fault) THEN Raised(HelperFailure(fault), st)
    ELSE IF fault = "undefined" THEN Resolved(None, st)
    ELSE Resolved(Some(Matching(st, filters, 1)), st)

(***************************************************************************)
(* utils/errorHandling.ts, as included in reminderHandlers.ts.             *)
(***************************************************************************)
\* no ValidationError branch: validation messages go through the detail gate
createErrorMessage_noValidationBypass(operation, error, e) ==
    LET message == IF error.instanceOfError THEN error.message ELSE SystemErrorOccurred
        isDev == e.NODE_ENV = Some(Development) \/ Truthy(e.DEBUG)
    IN  IF isDev THEN FailedTo \o operation \o ColonSpace \o message
        ELSE FailedTo \o operation \o ColonSpace \o SystemErrorOccurred

\* no isDev gate: the error message is always interpolated
createErrorMessage_leaksInProduction(operation, error, e) ==
    LET message == IF error.instanceOfError THEN error.message ELSE SystemErrorOccurred
    IN  IF error.class = "ValidationError" THEN message
        ELSE FailedTo \o operation \o ColonSpace \o message

createErrorMessage(operation, error, e) ==
    LET message == IF error.instanceOfError THEN error.message ELSE SystemErrorOccurred
        isDev == e.NODE_ENV = Some(Development) \/ Truthy(e.DEBUG)
    IN  IF error.class = "ValidationError" THEN message
        ELSE IF isDev THEN FailedTo \o operation \o ColonSpace \o message
        ELSE FailedTo \o operation \o ColonSpace \o SystemErrorOccurred

(***************************************************************************)
(* The async closure a handler passes to handleAsyncOperation runs to      *)
(* [threw, value, error, st, calls, raised, returned]: the text it         *)
(* resolved with or the error it rejected with, the store afterwards, the  *)
(* repository calls it made, the stage that raised ("none", "validation",  *)
(* "repository", "format") and what the repository returned.               *)
(***************************************************************************)
Rejects(stage, error, st, calls) ==
    [threw |-> TRUE, value |-> <<>>, error |-> error, st |-> st, calls |-> calls,
     raised |-> stage, returned |-> None]

Resolves(text, st, calls, returned) ==
    [threw |-> FALSE, value |-> text, error |-> NoError, st |-> st, calls |-> calls,
     raised |-> "none", returned |-> returned]

\* the handler's outcome: the CallToolResult it returns, or an exception it lets escape
Returns(text, isError) ==
    [kind |-> "return", content |-> <<[type |-> "text", text |-> text]>>,
     isError |-> isError]

Throws(error) == [kind |-> "throw", content |-> <<>>, isError |-> FALSE, error |-> error]

\* the catch block rethrows what is not an Error
handleAsyncOperation_catchesErrorsOnly(operation, operationName, e) ==
    IF ~operation.threw THEN Returns(operation.value, FALSE)
    ELSE IF ~operation.error.instanceOfError THEN Throws(operation.error)
    ELSE Returns(createErrorMessage(operationName, operation.error, e), TRUE)

handleAsyncOperation(operation, operationName, e) ==
    IF ~operation.threw THEN Returns(operation.value, FALSE)
    ELSE Returns(createErrorMessage(operationName, operation.error, e), TRUE)

(***************************************************************************)
(* reminderHandlers.ts: the four handlers.  Each yields [run, outcome].    *)
(***************************************************************************)
\* a repository call: the method, what it was handed, and the handler's variable
\* the handed values were read from ("validatedArgs" or the raw "args")
Call(name, params, from) == [name |-> name, params |-> params, from |-> from]

handleCreateReminder(args, fault, e, st) ==
    LET validated == extractAndValidateArgs(args, CreateReminderSchema)
        validatedArgs == validated.value
        data == [title |-> validatedArgs.title[1], notes |-> validatedArgs.note,
                 url |-> validatedArgs.url, list |-> validatedArgs.targetList,
                 dueDate |-> validatedArgs.dueDate]
        calls == <<Call("createReminder", data, "validatedArgs")>>
        r == createReminder(data, fault, st)
        reminder == r.value[1]
        operation ==
            IF ~validated.ok THEN Rejects("validation", validated.error, st, <<>>)
            ELSE IF r.threw THEN Rejects("repository", r.error, r.st, calls)
            ELSE Resolves(formatSuccessMessage(CreatedWord, ReminderWord,
                                               reminder.title, reminder.id[1]),
                          r.st, calls, r.value)
    IN  [run |-> operation, outcome |-> handleAsyncOperation(operation, OpCreate, e)]

\* notes: validatedArgs.note ?? '' -- an absent note is passed as the empty string
handleUpdateReminder_defaultsAbsent(args, fault, e, st) ==
    LET validated == extractAndValidateArgs(args, UpdateReminderSchema)
        validatedArgs == validated.value
        OrEmpty(o) == IF IsSome(o) THEN o ELSE Some(<<>>)
        data == [id |-> validatedArgs.id[1], newTitle |-> validatedArgs.title,
                 notes |-> OrEmpty(validatedArgs.note), url |-> validatedArgs.url,
                 isCompleted |-> validatedArgs.completed,
                 list |-> validatedArgs.targetList, dueDate |-> validatedArgs.dueDate]
        calls == <<Call("updateReminder", data, "validatedArgs")>>
        r == updateReminder(data, fault, st)
        reminder == r.value[1]
        operation ==
            IF ~validated.ok THEN Rejects("validation", validated.error, st, <<>>)
            ELSE IF r.threw THEN Rejects("repository", r.error, r.st, calls)
            ELSE Resolves(formatSuccessMessage(UpdatedWord, ReminderWord,
                                               reminder.title, reminder.id[1]),
                          r.st, calls, r.value)
    IN  [run |-> operation, outcome |-> handleAsyncOperation(operation, OpUpdate, e)]

handleUpdateReminder(args, fault, e, st) ==
    LET validated == extractAndValidateArgs(args, UpdateReminderSchema)
        validatedArgs == validated.value
        data == [id |-> validatedArgs.id[1], newTitle |-> validatedArgs.title,
                 notes |-> validatedArgs.note, url |-> validatedArgs.url,
                 isCompleted |-> validatedArgs.completed,
                 list |-> validatedArgs.targetList, dueDate |-> validatedArgs.dueDate]
        calls == <<Call("updateReminder", data, "validatedArgs")>>
        r == updateReminder(data, fault, st)
        reminder == r.value[1]
        operation ==
            IF ~validated.ok THEN Rejects("validation", validated.error, st, <<>>)
            ELSE IF r.threw THEN Rejects("repository", r.error, r.st, calls)
            ELSE Resolves(formatSuccessMessage(UpdatedWord, ReminderWord,
                                               reminder.title, reminder.id[1]),
                          r.st, calls, r.value)
    IN  [run |-> operation, outcome |-> handleAsyncOperation(operation, OpUpdate, e)]

DeleteMessageOptions ==
    [useQuotes |-> Some(FALSE), useIdPrefix |-> Some(TRUE), usePeriod |-> Some(FALSE),
     useColon |-> None]

\* the repository call is not awaited: its rejection is never observed
handleDeleteReminder_notAwaited(args, fault, e, st) ==
    LET validated == extractAndValidateArgs(args, DeleteReminderSchema)
        validatedArgs == validated.value
        calls == <<Call("deleteReminder", validatedArgs.id[1], "validatedArgs")>>
        r == deleteReminder(validatedArgs.id[1], fault, st)
        operation ==
            IF ~validated.ok THEN Rejects("validation", validated.error, st, <<>>)
            ELSE Resolves(formatDeleteMessage(ReminderWord, validatedArgs.id[1],
                                              DeleteMessageOptions),
                          r.st, calls, r.value)
    IN  [run |-> operation, outcome |-> handleAsyncOperation(operation, OpDelete, e)]

handleDeleteReminder(args, fault, e, st) ==
    LET validated == extractAndValidateArgs(args, DeleteReminderSchema)
        validatedArgs == validated.value
        calls == <<Call("deleteReminder", validatedArgs.id[1], "validatedArgs")>>
        r == deleteReminder(validatedArgs.id[1], fault, st)
        operation ==
            IF ~validated.ok THEN Rejects("validation", validated.error, st, <<>>)
            ELSE IF r.threw THEN Rejects("repository", r.error, r.st, calls)
            ELSE Resolves(formatDeleteMessage(ReminderWord, validatedArgs.id[1],
                                              DeleteMessageOptions),
                          r.st, calls, r.value)
    IN  [run |-> operation, outcome |-> handleAsyncOperation(operation, OpDelete, e)]

\* a not-found lookup is rendered as an empty list
handleReadReminders_missIsEmptyList(args, fault, e, st) ==
    LET validated == extractAndValidateArgs(args, ReadRemindersSchema)
        validatedArgs == validated.value
        filters == [list |-> validatedArgs.filterList,
                    showCompleted |-> validatedArgs.showCompleted,
                    search |-> validatedArgs.search, dueWithin |-> validatedArgs.dueWithin]
        idCalls == <<Call("findReminderById", args.id[1].v, "args")>>
        byId == findReminderById(args.id[1].v, fault, st)
        listCalls == <<Call("findReminders", filters, "validatedArgs")>>
        found == findReminders(filters, fault, st)
        operation ==
            IF ~validated.ok THEN Rejects("validation", validated.error, st, <<>>)
            ELSE IF RawTruthy(args.id) THEN
                IF byId.threw /\ byId.error.class = "NotFoundError"
                    THEN Resolves(formatListMarkdown(RemindersTitle, <<>>, EmptyMessage),
                                  byId.st, idCalls, None)
                ELSE IF byId.threw THEN Rejects("repository", byId.error, byId.st, idCalls)
                ELSE IF ~IsSome(byId.value)
                    THEN Rejects("format", TypeError(UndefinedRead), byId.st, idCalls)
                ELSE Resolves(Join(<<ReminderHeading, <<>>>>
                                       \o formatReminderMarkdown(byId.value[1]), NL),
                              byId.st, idCalls, byId.value)
            ELSE IF found.threw THEN Rejects("repository", found.error, found.st, listCalls)
            ELSE IF ~IsSome(found.value)
                THEN Rejects("format", TypeError(UndefinedRead), found.st, listCalls)
            ELSE Resolves(formatListMarkdown(RemindersTitle, found.value[1], EmptyMessage),
                          found.st, listCalls, found.value)
    IN  [run |-> operation, outcome |-> handleAsyncOperation(operation, OpRead, e)]

\* a request that carries filter fields takes the filter query, id or not
handleReadReminders_filterFieldsWin(args, fault, e, st) ==
    LET validated == extractAndValidateArgs(args, ReadRemindersSchema)
        validatedArgs == validated.value
        filters == [list |-> validatedArgs.filterList,
                    showCompleted |-> validatedArgs.showCompleted,
                    search |-> validatedArgs.search, dueWithin |-> validatedArgs.dueWithin]
        filtered == \E f \in DOMAIN filters : IsSome(filters[f])
        idCalls == <<Call("findReminderById", args.id[1].v, "args")>>
        byId == findReminderById(args.id[1].v, fault, st)
        listCalls == <<Call("findReminders", filters, "validatedArgs")>>
        found == findReminders(filters, fault, st)
        operation ==
            IF ~validated.ok THEN Rejects("validation", validated.error, st, <<>>)
            ELSE IF RawTruthy(args.id) /\ ~filtered THEN
                IF byId.threw THEN Rejects("repository", byId.error, byId.st, idCalls)
                ELSE IF ~IsSome(byId.value)
                    THEN Rejects("format", TypeError(UndefinedRead), byId.st, idCalls)
                ELSE Resolves(Join(<<ReminderHeading, <<>>>>
                                       \o formatReminderMarkdown(byId.value[1]), NL),
                              byId.st, idCalls, byId.value)
            ELSE IF found.threw THEN Rejects("repository", found.error, found.st, listCalls)
            ELSE IF ~IsSome(found.value)
                THEN Rejects("format", TypeError(UndefinedRead), found.st, listCalls)
            ELSE Resolves(formatListMarkdown(RemindersTitle, found.value[1], EmptyMessage),
                          found.st, listCalls, found.value)
    IN  [run |-> operation, outcome |-> handleAsyncOperation(operation, OpRead, e)]

handleReadReminders(args, fault, e, st) ==
    LET validated == extractAndValidateArgs(args, ReadRemindersSchema)
        validatedArgs == validated.value
        filters == [list |-> validatedArgs.filterList,
                    showCompleted |-> validatedArgs.showCompleted,
                    search |-> validatedArgs.search, dueWithin |-> validatedArgs.dueWithin]
        idCalls == <<Call("findReminderById", args.id[1].v, "args")>>
        byId == findReminderById(args.id[1].v, fault, st)
        listCalls == <<Call("findReminders", filters, "validatedArgs")>>
        found == findReminders(filters, fault, st)
        operation ==
            IF ~validated.ok THEN Rejects("validation", validated.error, st, <<>>)
            ELSE IF RawTruthy(args.id) THEN
                IF byId.threw THEN Rejects("repository", byId.error, byId.st, idCalls)
                ELSE IF ~IsSome(byId.value)
                    THEN Rejects("format", TypeError(UndefinedRead), byId.st, idCalls)
                ELSE Resolves(Join(<<ReminderHeading, <<>>>>
                                       \o formatReminderMarkdown(byId.value[1]), NL),
                              byId.st, idCalls, byId.value)
            ELSE IF found.threw THEN Rejects("repository", found.error, found.st, listCalls)
            ELSE IF ~IsSome(found.value)
                THEN Rejects("format", TypeError(UndefinedRead), found.st, listCalls)
            ELSE Resolves(formatListMarkdown(RemindersTitle, found.value[1], EmptyMessage),
                          found.st, listCalls, found.value)
    IN  [run |-> operation, outcome |-> handleAsyncOperation(operation, OpRead, e)]

(***************************************************************************)
(* Bounds of the model.                                                    *)
(***************************************************************************)
\* ids the store can assign
MaxReminders == 1

\* HTTP clients, SSE connections opened, POST /message requests answered
MaxClients == 2

MaxConnections == 3

MaxPosts == 2

\* length of the title and notes strings handed to the single-record formatter
MaxStrLen == 2

(***************************************************************************)
(* The tool calls the model issues.                                        *)
(***************************************************************************)
Ids == {IdOf(k) : k \in 1..MaxReminders} \cup {IdUnknown}

Text(s) == Some(StringValue(s))

CreateRequests ==
    LET base == [NoArgs EXCEPT !.action = Text(ActionCreate)]
    IN  { [base EXCEPT !.title = Text(TitleBuyMilk)],
          [base EXCEPT !.title = Text(TitleCallBob), !.note = Text(NoteB),
                       !.url = Text(UrlA), !.targetList = Text(ListWork),
                       !.dueDate = Text(DateA)],
          base,
          [base EXCEPT !.title = Some(NumberValue(42))],
          [base EXCEPT !.title = Text(TitleBuyMilk), !.dueDate = Text(DateBad)] }

UpdateRequests ==
    LET base == [NoArgs EXCEPT !.action = Text(ActionUpdate)]
    IN  UNION { { [base EXCEPT !.id = Text(id), !.completed = Some(BooleanValue(TRUE))],
                  [base EXCEPT !.id = Text(id), !.title = Text(TitleCallBob),
                               !.note = Text(NoteA), !.targetList = Text(ListHome),
                               !.dueDate = Text(DateB)] } : id \in Ids }
        \cup { [base EXCEPT !.completed = Some(BooleanValue(TRUE))] }

DeleteRequests ==
    LET base == [NoArgs EXCEPT !.action = Text(ActionDelete)]
    IN  { [base EXCEPT !.id = Text(id)] : id \in Ids } \cup { base }

ReadBase == [NoArgs EXCEPT !.action = Text(ActionRead)]

ReadRequests ==
    { [ReadBase EXCEPT !.id = Text(id)] : id \in Ids }
    \cup { ReadBase,
           [ReadBase EXCEPT !.showCompleted = Some(BooleanValue(TRUE))],
           [ReadBase EXCEPT !.id = Some(NumberValue(42))],
           [ReadBase EXCEPT !.id = Text(IdOf(1)), !.filterList = Text(ListHome)],
           [ReadBase EXCEPT !.id = Text(<<>>), !.search = Text(SearchMilk)] }

Faults == {"none", "error1", "error2", "value"}

ReadFaults == Faults \cup {"undefined"}

\* process.env as the server may be started: NODE_ENV unset, "development" or
\* "production"; DEBUG unset, set to the empty string, or set to "1"
Envs ==
    { [NODE_ENV |-> None, DEBUG |-> None],
      [NODE_ENV |-> Some(Production), DEBUG |-> None],
      [NODE_ENV |-> Some(Development), DEBUG |-> None],
      [NODE_ENV |-> Some(Production), DEBUG |-> Some(<<>>)],
      [NODE_ENV |-> Some(Production), DEBUG |-> Some(DebugOn)] }

(***************************************************************************)
(* The state machine of the tool handlers.                                 *)
(***************************************************************************)
St == [store |-> store, nextId |-> nextId]

NoCall ==
    [op |-> "none", args |-> NoArgs, fault |-> "none", raised |-> "none", error |-> NoError,
     calls |-> <<>>, returned |-> None, outcome |-> Returns(<<>>, FALSE)]

HttpIdle == transport = 0 /\ conns = <<>> /\ posts = <<>>

FormatIdle == fmtRec = None /\ fmtLines = <<>> /\ fmtPhase = "idle"

Init ==
    /\ env \in Envs
    /\ store = [k \in 1..MaxReminders |-> None]
    /\ nextId = 0
    /\ deleted = {}
    /\ last = NoCall
    /\ HttpIdle
    /\ FormatIdle

\* the handler h ran for the call (op, args) while the helper behaved as `fault`
\* says (recorded as "none" when no repository call was made): its effects on the store and its outcome
Invoke(op, args, fault, h) ==
    /\ store' = h.run.st.store
    /\ nextId' = h.run.st.nextId
    /\ deleted' = IF op = "delete" /\ ~h.run.threw
                     THEN deleted \cup {args.id[1].v} ELSE deleted
    /\ last' = [op |-> op, args |-> args, fault |-> fault, raised |-> h.run.raised, error |-> h.run.error,
                calls |-> h.run.calls, returned |-> h.run.returned,
                outcome |-> h.outcome]
    /\ UNCHANGED <<env, transport, conns, posts, fmtRec, fmtLines, fmtPhase>>

CreateReminder ==
    /\ nextId < MaxReminders
    /\ \E args \in CreateRequests, fault \in Faults :
          \E h \in {handleCreateReminder(args, fault, env, St)} :
              Invoke("create", args, IF h.run.calls = <<>> THEN "none" ELSE fault, h)

UpdateReminder ==
    \E args \in UpdateRequests, fault \in Faults :
        \E h \in {handleUpdateReminder(args, fault, env, St)} :
              Invoke("update", args, IF h.run.calls = <<>> THEN "none" ELSE fault, h)

DeleteReminder ==
    \E args \in DeleteRequests, fault \in Faults :
        \E h \in {handleDeleteReminder(args, fault, env, St)} :
              Invoke("delete", args, IF h.run.calls = <<>> THEN "none" ELSE fault, h)

ReadReminders ==
    \E args \in ReadRequests, fault \in ReadFaults :
        \E h \in {handleReadReminders(args, fault, env, St)} :
              Invoke("read", args, IF h.run.calls = <<>> THEN "none" ELSE fault, h)

Next == CreateReminder \/ UpdateReminder \/ DeleteReminder \/ ReadReminders

Spec == Init /\ [][Next]_vars

(***************************************************************************)
(* Reads over a store that already holds reminders (the OS store is shared *)
(* with the Reminders app, so any content may be there when a read runs).  *)
(***************************************************************************)
\* reminders the store may hold when a read runs
MaxItems == 2

StoredVariants(k) ==
    { [id |-> Some(IdOf(k)), title |-> TitleBuyMilk, isCompleted |-> FALSE,
       notes |-> None, url |-> None, list |-> None, dueDate |-> None],
      [id |-> Some(IdOf(k)), title |-> TitleCallBob, isCompleted |-> TRUE,
       notes |-> Some(NoteB), url |-> Some(UrlA), list |-> Some(ListWork),
       dueDate |-> Some(DateA)],
      [id |-> Some(IdOf(k)), title |-> TitleCallBob, isCompleted |-> FALSE,
       notes |-> Some(NoteA), url |-> None, list |-> Some(ListWork),
       dueDate |-> None] }

StoredReadRequests ==
    { [ReadBase EXCEPT !.id = Text(id)] :
          id \in {IdOf(k) : k \in 1..MaxItems} \cup {IdUnknown} }
    \cup { ReadBase,
           [ReadBase EXCEPT !.filterList = Text(ListWork)],
           [ReadBase EXCEPT !.filterList = Text(ListHome)],
           [ReadBase EXCEPT !.showCompleted = Some(BooleanValue(TRUE))],
           [ReadBase EXCEPT !.search = Text(SearchMilk)],
           [ReadBase EXCEPT !.id = Text(IdOf(1)), !.filterList = Text(ListHome)],
           [ReadBase EXCEPT !.id = Text(<<>>)],
           [ReadBase EXCEPT !.id = Some(NumberValue(42))] }

ReadInit ==
    /\ env \in Envs
    /\ \E held \in SUBSET (1..MaxItems) :
          store \in [1..MaxItems ->
                        {None} \cup UNION {{Some(r) : r \in StoredVariants(k)} :
                                              k \in 1..MaxItems}]
          /\ \A k \in 1..MaxItems :
                IF k \in held THEN IsSome(store[k]) /\ store[k][1].id = Some(IdOf(k))
                ELSE store[k] = None
    /\ nextId = MaxItems
    /\ deleted = {}
    /\ last = NoCall
    /\ HttpIdle
    /\ FormatIdle

ReadStoredReminders ==
    \E args \in StoredReadRequests, fault \in ReadFaults :
        \E h \in {handleReadReminders(args, fault, env, St)} :
              Invoke("read", args, IF h.run.calls = <<>> THEN "none" ELSE fault, h)

ReadNext == ReadStoredReminders

ReadSpec == ReadInit /\ [][ReadNext]_vars

(***************************************************************************)
(* server/http.ts: startHttpServer.  `transport` is 0 while the variable   *)
(* is undefined, else the index in conns of the SSE connection whose       *)
(* SSEServerTransport it holds.  A post is [client, status, via, own]:     *)
(* who posted, the HTTP status, the connection whose transport handled it  *)
(* (0 if none) and the poster's own latest SSE connection (0 if none).     *)
(***************************************************************************)
Clients == 1..MaxClients

OwnConnection(c) ==
    IF \E i \in 1..Len(conns) : conns[i] = c
    THEN CHOOSE i \in 1..Len(conns) :
             conns[i] = c /\ \A j \in 1..Len(conns) : conns[j] = c => j <= i
    ELSE 0

HandlersIdle ==
    /\ env = [NODE_ENV |-> None, DEBUG |-> None]
    /\ store = <<>> /\ nextId = 0 /\ deleted = {} /\ last = NoCall

HttpInit == HandlersIdle /\ HttpIdle /\ FormatIdle

\* the transport is created for the first connection only and kept afterwards
GetSse_keepsFirstTransport(c) ==
    /\ Len(conns) < MaxConnections
    /\ conns' = Append(conns, c)
    /\ transport' = IF transport = 0 THEN Len(conns) + 1 ELSE transport
    /\ UNCHANGED <<posts, env, store, nextId, deleted, last, fmtRec, fmtLines, fmtPhase>>

\* app.get('/sse'): transport = new SSEServerTransport('/message', res)
GetSse(c) ==
    /\ Len(conns) < MaxConnections
    /\ conns' = Append(conns, c)
    /\ transport' = Len(conns) + 1
    /\ UNCHANGED <<posts, env, store, nextId, deleted, last, fmtRec, fmtLines, fmtPhase>>

\* app.post('/message')
PostMessage(c) ==
    /\ Len(posts) < MaxPosts
    /\ posts' = Append(posts,
                       IF transport = 0
                       THEN [client |-> c, status |-> 400, via |-> 0,
                             own |-> OwnConnection(c)]
                       ELSE [client |-> c, status |-> 200, via |-> transport,
                             own |-> OwnConnection(c)])
    /\ UNCHANGED <<transport, conns, env, store, nextId, deleted, last, fmtRec,
                   fmtLines, fmtPhase>>

HttpNext == \E c \in Clients : GetSse(c) \/ PostMessage(c)

HttpSpec == HttpInit /\ [][HttpNext]_vars

(***************************************************************************)
(* The single-record formatter applied to arbitrary records.               *)
(***************************************************************************)
Strs(alphabet, n) == UNION {[1..k -> alphabet] : k \in 0..n}

FormatAlphabet == {"a", " ", "\n"}

FormatRecords ==
    [title : Strs(FormatAlphabet, MaxStrLen),
     isCompleted : BOOLEAN,
     list : {None, Some(<<>>), Some(ListWork)},
     id : {None, Some(<<>>), Some(IdOf(1))},
     notes : {None} \cup {Some(s) : s \in Strs(FormatAlphabet, MaxStrLen)},
     dueDate : {None, Some(DateA)},
     url : {None, Some(UrlA)}]

FormatInit ==
    /\ HandlersIdle
    /\ HttpIdle
    /\ fmtRec \in {Some(r) : r \in FormatRecords}
    /\ fmtLines = <<>>
    /\ fmtPhase = "drawn"

FormatSingle ==
    /\ fmtPhase = "drawn"
    /\ fmtLines' = formatReminderMarkdown(fmtRec[1])
    /\ fmtPhase' = "rendered"
    /\ UNCHANGED <<fmtRec, env, store, nextId, deleted, last, transport, conns, posts>>

FormatNext == FormatSingle

FormatSpec == FormatInit /\ [][FormatNext]_vars

(***************************************************************************)
(* Verification conditions.  The texts the claims expect, spelled out      *)
(* independently of the formatters.                                        *)
(***************************************************************************)
\* ": System error occurred"
ExpectGenericSuffix == <<":"," ","S","y","s","t","e","m"," ","e","r","r","o","r"," ","o","c","c","u","r","r","e","d">>
\* "Failed to "
ExpectFailedTo == <<"F","a","i","l","e","d"," ","t","o"," ">>
\* "Successfully created reminder \""
ExpectCreatedOpen == <<"S","u","c","c","e","s","s","f","u","l","l","y"," ","c","r","e","a","t","e","d"," ","r","e","m","i","n","d","e","r"," ","\"">>
\* "\"."
ExpectCreatedClose == <<"\"",".">>
\* "- ID: "
ExpectIdLine == <<"-"," ","I","D",":"," ">>
\* "Successfully created reminder \"Buy milk\".\n- ID: ABC1"
ExpectBuyMilkText == <<"S","u","c","c","e","s","s","f","u","l","l","y"," ","c","r","e","a","t","e","d"," ","r","e","m","i","n","d","e","r"," ","\"","B","u","y"," ","m","i","l","k","\"",".","\n","-"," ","I","D",":"," ","A","B","C","1">>
\* "Successfully deleted reminder"
ExpectDeletedPrefix == <<"S","u","c","c","e","s","s","f","u","l","l","y"," ","d","e","l","e","t","e","d"," ","r","e","m","i","n","d","e","r">>
\* "### Reminders (Total: "
ExpectListHeaderOpen == <<"#","#","#"," ","R","e","m","i","n","d","e","r","s"," ","(","T","o","t","a","l",":"," ">>
\* "No reminders found matching the criteria."
ExpectEmptyMessage == <<"N","o"," ","r","e","m","i","n","d","e","r","s"," ","f","o","u","n","d"," ","m","a","t","c","h","i","n","g"," ","t","h","e"," ","c","r","i","t","e","r","i","a",".">>
\* "### Reminders (Total: 0)\n\nNo reminders found matching the criteria."
ExpectEmptyList == <<"#","#","#"," ","R","e","m","i","n","d","e","r","s"," ","(","T","o","t","a","l",":"," ","0",")","\n","\n","N","o"," ","r","e","m","i","n","d","e","r","s"," ","f","o","u","n","d"," ","m","a","t","c","h","i","n","g"," ","t","h","e"," ","c","r","i","t","e","r","i","a",".">>
\* "not found"
ExpectNotFound == <<"n","o","t"," ","f","o","u","n","d">>

Called == last.op # "none"

ResultText == last.outcome.content[1].text

\* the operation name each handler reports failures under
ExpectOperation ==
    IF last.op = "create" THEN <<"c","r","e","a","t","e"," ","r","e","m","i","n","d","e","r">>
    ELSE IF last.op = "update" THEN <<"u","p","d","a","t","e"," ","r","e","m","i","n","d","e","r">>
    ELSE IF last.op = "delete" THEN <<"d","e","l","e","t","e"," ","r","e","m","i","n","d","e","r">>
    ELSE <<"r","e","a","d"," ","r","e","m","i","n","d","e","r","s">>

ExpectGenericText == ExpectFailedTo \o ExpectOperation \o ExpectGenericSuffix

ExpectDetailedText == ExpectFailedTo \o ExpectOperation \o <<":", " ">> \o last.error.message

StartsWith(s, prefix) == Len(s) >= Len(prefix) /\ SubSeq(s, 1, Len(prefix)) = prefix

ClaimedProduction == env.NODE_ENV # Some(Development) /\ env.DEBUG = None

\* production as the code decides it: DEBUG unset or the empty string
InProduction ==
    /\ env.NODE_ENV # Some(Development)
    /\ env.DEBUG = None \/ env.DEBUG = Some(<<>>)

FailedOutsideValidation == Called /\ last.raised \in {"repository", "format"}

RequiredField == IF last.op = "create" THEN "title" ELSE "id"

RequiredFieldName ==
    IF last.op = "create" THEN <<"t","i","t","l","e">> ELSE <<"i","d">>

MissingRequiredField ==
    /\ last.op \in {"create", "update", "delete"}
    /\ ~IsSome(last.args[RequiredField])

ReadById == Called /\ last.op = "read" /\ last.calls # <<>>
               /\ last.calls[1].name = "findReminderById"

ReadByFilter == Called /\ last.op = "read" /\ last.calls # <<>>
                   /\ last.calls[1].name = "findReminders"

\* the id-based lookup ran, the helper worked, and the store holds no such id
IdMiss ==
    /\ ReadById
    /\ last.fault = "none"
    /\ \A k \in DOMAIN store :
          IsSome(store[k]) => store[k][1].id # Some(last.calls[1].params)

\* the filter query ran and matched nothing
FilterMiss == ReadByFilter /\ last.raised = "none" /\ last.returned = Some(<<>>)

\* C4 as stated: a filter read with no matches returns isError = false and the
\* empty message; a read by id with no match returns isError = true with a
\* not-found message, recognisable as not-found in every environment mode, and
\* the two envelopes differ.
C4_AsStated ==
    /\ FilterMiss => (~last.outcome.isError /\ ResultText = ExpectEmptyList)
    /\ IdMiss =>
          /\ last.outcome.isError
          /\ Contains(ResultText, ExpectNotFound)
          /\ ResultText # ExpectEmptyList

\* C4 amended: a filter read with no matches returns isError = false and the
\* empty message; a read by id with no match returns isError = true, with the
\* not-found message when NODE_ENV is 'development' or DEBUG is non-empty and with
\* the generic "Failed to read reminders: System error occurred" otherwise; in
\* every mode the two envelopes differ in isError and in text.
C4_EmptyCasesDistinct ==
    /\ FilterMiss => (~last.outcome.isError /\ ResultText = ExpectEmptyList)
    /\ IdMiss =>
          /\ last.outcome.isError
          /\ ResultText # ExpectEmptyList
          /\ ~Contains(ResultText, ExpectEmptyMessage)
          /\ ~InProduction => (ResultText = ExpectDetailedText
                               /\ Contains(ResultText, ExpectNotFound))
          /\ InProduction => ResultText = ExpectGenericText

\* C4 witness: a read by an id the store does not hold, in production mode, came
\* back as an error envelope with the generic text.
C4_Witness ==
    /\ IdMiss
    /\ InProduction
    /\ last.error.class = "NotFoundError"
    /\ last.outcome.isError
    /\ ResultText = ExpectGenericText
    /\ \E k \in DOMAIN store : IsSome(store[k])

RECURSIVE ExpectBody(_)
\* every record of items rendered once, in order, each line preceded by a newline
ExpectBody(items) ==
    IF Len(items) = 0 THEN <<>>
    ELSE <<"\n">> \o Join(formatReminderMarkdown(Head(items)), <<"\n">>)
         \o ExpectBody(Tail(items))

FirstLine(s) ==
    IF \E i \in 1..Len(s) : s[i] = "\n"
    THEN SubSeq(s, 1, (CHOOSE i \in 1..Len(s) :
                           s[i] = "\n" /\ \A j \in 1..(i - 1) : s[j] # "\n") - 1)
    ELSE s

ExpectListHeader(n) == ExpectListHeaderOpen \o ToDecimal(n) \o <<")">>

\* C10: the list rendering of a filter read starts with the line
\* '### Reminders (Total: n)', n the number of records returned; for n = 0 the
\* body is exactly the empty message and the envelope is a non-error one; for
\* n > 0 the empty message does not appear and every record is rendered once, in
\* the order the repository returned them.
C10_ListFormat ==
    (ReadByFilter /\ last.raised = "none") =>
        LET items == last.returned[1]
            n == Len(items)
        IN  /\ ~last.outcome.isError
            /\ FirstLine(ResultText) = ExpectListHeader(n)
            /\ n = 0 => ResultText = ExpectListHeader(0) \o <<"\n", "\n">>
                                        \o ExpectEmptyMessage
            /\ n > 0 =>
                  /\ ~Contains(ResultText, ExpectEmptyMessage)
                  /\ ResultText = ExpectListHeader(n) \o <<"\n">> \o ExpectBody(items)

\* C10 witness: a filter read returned two different records, rendered in order.
C10_Witness ==
    /\ ReadByFilter
    /\ last.raised = "none"
    /\ Len(last.returned[1]) = 2
    /\ last.returned[1][1].title # last.returned[1][2].title
    /\ ResultText = ExpectListHeader(2) \o <<"\n">> \o ExpectBody(last.returned[1])

\* C5: under the HTTP/SSE transport with several clients, a message posted by a
\* client that has an SSE connection is handled by the transport of that client's
\* own connection, whatever other clients did in between.
C5_OwnTransport ==
    \A i \in 1..Len(posts) :
        posts[i].own # 0 => (posts[i].via # 0 /\ conns[posts[i].via] = posts[i].client)

\* the value a request supplies for a key, as an optional plain value
Supplied(args, key) == IF IsSome(args[key]) THEN Some(args[key][1].v) ELSE None

\* the update reached the repository
UpdateAsked == Called /\ last.op = "update" /\ last.calls # <<>>

UpdateDone == UpdateAsked /\ last.raised = "none"

\* the stored record r after changing exactly the fields the request a supplies
ExpectUpdated(r, a) ==
    [id |-> r.id,
     title |-> IF IsSome(a.title) THEN a.title[1].v ELSE r.title,
     isCompleted |-> IF IsSome(a.completed) THEN a.completed[1].v ELSE r.isCompleted,
     notes |-> IF IsSome(a.note) THEN Some(a.note[1].v) ELSE r.notes,
     url |-> IF IsSome(a.url) THEN Some(a.url[1].v) ELSE r.url,
     list |-> IF IsSome(a.targetList) THEN Some(a.targetList[1].v) ELSE r.list,
     dueDate |-> IF IsSome(a.dueDate) THEN Some(a.dueDate[1].v) ELSE r.dueDate]

\* C6: update is a partial update.  In every step in which a validated update
\* reaches the repository, each field of the repository request is present exactly
\* when the tool request supplied it (with the supplied value) and is absent
\* otherwise; when the update succeeds, the stored record changes in the supplied
\* fields only and every other record is left as it was.
C6_PartialUpdate ==
    [][ UpdateAsked' =>
          LET a == last'.args
              p == last'.calls[1].params
          IN  /\ p.id = a.id[1].v
              /\ p.newTitle = Supplied(a, "title")
              /\ p.notes = Supplied(a, "note")
              /\ p.url = Supplied(a, "url")
              /\ p.isCompleted = Supplied(a, "completed")
              /\ p.list = Supplied(a, "targetList")
              /\ p.dueDate = Supplied(a, "dueDate")
              /\ UpdateDone' =>
                    \A k \in DOMAIN store :
                        IF IsSome(store[k]) /\ store[k][1].id = Some(p.id)
                        THEN store'[k] = Some(ExpectUpdated(store[k][1], a))
                        ELSE store'[k] = store[k]
      ]_vars

\* C6 witness: an update carrying only {id, completed: true} succeeded on a record
\* that has notes, url, list and a due date, which are all still stored.
C6_Witness ==
    /\ UpdateDone
    /\ \A key \in {"title", "note", "url", "targetList", "dueDate"} :
          ~IsSome(last.args[key])
    /\ last.args.completed = Some(BooleanValue(TRUE))
    /\ \E k \in DOMAIN store :
          /\ IsSome(store[k])
          /\ store[k][1].isCompleted
          /\ store[k][1].title = TitleCallBob
          /\ store[k][1].notes = Some(NoteB)
          /\ store[k][1].url = Some(UrlA)
          /\ store[k][1].list = Some(ListWork)
          /\ store[k][1].dueDate = Some(DateA)

\* the call is a delete of an id that an earlier delete removed
DeleteOf(call, ids) ==
    /\ call.op = "delete"
    /\ IsSome(call.args.id)
    /\ call.args.id[1].type = "string"
    /\ call.args.id[1].v \in ids

CreateDone == Called /\ last.op = "create" /\ last.raised = "none"

\* C8: a successful create returns isError = false and the text
\* 'Successfully created reminder "<title>".' followed by the line '- ID: <id>',
\* <title> and <id> being those of the record the repository returned.
C8_CreateMessage ==
    CreateDone =>
        LET reminder == last.returned[1]
        IN  /\ ~last.outcome.isError
            /\ ResultText = ExpectCreatedOpen \o reminder.title \o ExpectCreatedClose
                               \o <<"\n">> \o ExpectIdLine \o reminder.id[1]
            /\ \E k \in DOMAIN store : store[k] = Some(reminder)

\* C8 witness: create({title: "Buy milk"}) succeeded with the text of the scenario.
C8_Witness ==
    /\ CreateDone
    /\ last.args.title = Text(TitleBuyMilk)
    /\ ResultText = ExpectBuyMilkText

RECURSIVE Unindent(_)
\* reading a rendered note back: drop the four spaces that follow each newline
Unindent(s) ==
    IF Len(s) = 0 THEN <<>>
    ELSE IF Head(s) = "\n" THEN <<"\n">> \o Unindent(SubSeq(s, 6, Len(s)))
    ELSE <<Head(s)>> \o Unindent(Tail(s))

After(line, label) == SubSeq(line, Len(label) + 1, Len(line))

\* re-reading the rendered lines of a record that has every field
ReadBack(lines) ==
    [title |-> SubSeq(lines[1], 7, Len(lines[1])),
     isCompleted |-> SubSeq(lines[1], 1, 6) = <<"-", " ", "[", "x", "]", " ">>,
     list |-> After(lines[2], <<" ", " ", "-", " ", "L", "i", "s", "t", ":", " ">>),
     id |-> After(lines[3], <<" ", " ", "-", " ", "I", "D", ":", " ">>),
     notes |-> Unindent(After(lines[4],
                   <<" ", " ", "-", " ", "N", "o", "t", "e", "s", ":", " ">>)),
     dueDate |-> After(lines[5], <<" ", " ", "-", " ", "D", "u", "e", ":", " ">>),
     url |-> After(lines[6], <<" ", " ", "-", " ", "U", "R", "L", ":", " ">>)]

\* every optional field of the record holds a non-empty string
AllFieldsPresent(r) ==
    Truthy(r.list) /\ Truthy(r.id) /\ Truthy(r.notes) /\ Truthy(r.dueDate)
        /\ Truthy(r.url)

\* C9: for a record with all fields present, the formatter renders six lines
\* (title, List, ID, Notes, Due, URL, each under its label) and re-reading them
\* recovers the literal title, completion, list, id, notes, due date and url.
C9_RoundTrip ==
    (fmtPhase = "rendered" /\ AllFieldsPresent(fmtRec[1])) =>
        LET r == fmtRec[1]
            back == ReadBack(fmtLines)
        IN  /\ Len(fmtLines) = 6
            /\ StartsWith(fmtLines[1], <<"-", " ", "[">>)
            /\ StartsWith(fmtLines[2], <<" ", " ", "-", " ", "L", "i", "s", "t", ":", " ">>)
            /\ StartsWith(fmtLines[3], <<" ", " ", "-", " ", "I", "D", ":", " ">>)
            /\ StartsWith(fmtLines[4],
                          <<" ", " ", "-", " ", "N", "o", "t", "e", "s", ":", " ">>)
            /\ StartsWith(fmtLines[5], <<" ", " ", "-", " ", "D", "u", "e", ":", " ">>)
            /\ StartsWith(fmtLines[6], <<" ", " ", "-", " ", "U", "R", "L", ":", " ">>)
            /\ back.title = r.title
            /\ back.isCompleted = r.isCompleted
            /\ back.list = r.list[1]
            /\ back.id = r.id[1]
            /\ back.notes = r.notes[1]
            /\ back.dueDate = r.dueDate[1]
            /\ back.url = r.url[1]

\* C9 witness: a record with every field present, a title holding a space and a
\* note of two lines has been rendered.
C9_Witness ==
    /\ fmtPhase = "rendered"
    /\ AllFieldsPresent(fmtRec[1])
    /\ fmtRec[1].title = <<"a", " ">>
    /\ fmtRec[1].notes = Some(<<"a", "\n">>)
    /\ Len(fmtLines) = 6

(***************************************************************************)
(* The validation boundary and the repository operations of one call.      *)
(***************************************************************************)
\* the schema each handler validates against
SchemaOfLast ==
    IF last.op = "create" THEN CreateReminderSchema
    ELSE IF last.op = "update" THEN UpdateReminderSchema
    ELSE IF last.op = "delete" THEN DeleteReminderSchema
    ELSE ReadRemindersSchema

\* what validating the last call's raw arguments yields
ValidatedLast == extractAndValidateArgs(last.args, SchemaOfLast)

\* a call whose arguments fail validation stops there, and a repository operation
\* is only invoked by a call whose arguments passed validation
RejectedAtBoundary ==
    Called =>
        /\ ~ValidatedLast.ok => (last.calls = <<>> /\ last.raised = "validation")
        /\ last.calls # <<>> => (ValidatedLast.ok /\ last.raised # "validation")

\* the by-id lookup is handed a string equal to the validated id
LookupIdIsValidatedId ==
    \A i \in 1..Len(last.calls) :
        last.calls[i].name = "findReminderById" =>
            /\ ValidatedLast.ok
            /\ ValidatedLast.value.id = Some(last.calls[i].params)

\* every repository operation was handed values read from the validated record
HandedFromValidated ==
    \A i \in 1..Len(last.calls) : last.calls[i].from = "validatedArgs"

\* C11: in every call of create, read, update or delete no repository operation is
\* invoked before validation has succeeded, a call whose arguments fail validation
\* invokes no repository operation at all, and every value handed to the repository
\* is taken from the validated arguments rather than from the raw request.
C11_ValidatedOnly == RejectedAtBoundary /\ HandedFromValidated

\* the repository operation each handler may perform
OperationOfLast ==
    IF last.op = "create" THEN {"createReminder"}
    ELSE IF last.op = "update" THEN {"updateReminder"}
    ELSE IF last.op = "delete" THEN {"deleteReminder"}
    ELSE {"findReminderById", "findReminders"}

CallNames == {last.calls[i].name : i \in 1..Len(last.calls)}

\* the read request carries a non-empty id / carries no id or an empty one
CarriesId ==
    /\ IsSome(last.args.id)
    /\ last.args.id[1].type = "string"
    /\ last.args.id[1].v # <<>>

IdAbsentOrEmpty ==
    \/ ~IsSome(last.args.id)
    \/ last.args.id[1].type = "string" /\ last.args.id[1].v = <<>>

FilterFieldsSupplied ==
    \E f \in {"filterList", "showCompleted", "search", "dueWithin"} : IsSome(last.args[f])

\* C12: every reminder handler invocation performs at most one repository
\* operation (exactly one, of the handler's own kind, once its arguments passed
\* validation), and read takes exactly one of two paths: with a non-empty id it
\* performs only the by-id lookup of that id and never the filter query, whatever
\* filter fields the request carries; with the id absent or empty it performs only
\* the filter query and never the by-id lookup.
C12_OneOperation ==
    Called =>
        /\ Len(last.calls) <= 1
        /\ CallNames \subseteq OperationOfLast
        /\ ValidatedLast.ok => Len(last.calls) = 1
        /\ (last.op = "read" /\ CarriesId) =>
              /\ CallNames \subseteq {"findReminderById"}
              /\ \A i \in 1..Len(last.calls) :
                    last.calls[i].params = last.args.id[1].v
        /\ (last.op = "read" /\ IdAbsentOrEmpty) => CallNames \subseteq {"findReminders"}

\* C12 witness: a read carrying both an id and a list filter performed the by-id
\* lookup alone and returned that reminder.
C12_Witness ==
    /\ Called /\ last.op = "read"
    /\ CarriesId /\ FilterFieldsSupplied
    /\ last.raised = "none"
    /\ Len(last.calls) = 1
    /\ last.calls[1].name = "findReminderById"
    /\ IsSome(last.returned)
    /\ last.returned[1].id = Some(last.args.id[1].v)

(***************************************************************************)
(* HTTP mode: which transport a POST /message reaches.                     *)
(***************************************************************************)
\* a POST /message was answered in this step; conns holds the GET /sse requests
\* received before it, the most recent last
PostAnswered == Len(posts') = Len(posts) + 1

AnsweredPost == posts'[Len(posts')]

\* C13: in HTTP mode, a POST /message that arrives before any GET /sse has been
\* received is answered with status 400 'No active connection' and is handed to no
\* transport; once at least one GET /sse has been received, every POST /message is
\* handed to the transport created by the most recent GET /sse and is not answered
\* with that 400.
C13_LatestTransport ==
    [][PostAnswered =>
          IF conns = <<>>
          THEN AnsweredPost.status = 400 /\ AnsweredPost.via = 0
          ELSE AnsweredPost.status # 400 /\ AnsweredPost.via = Len(conns)]_vars

\* C13 witness: the first POST came before any GET /sse and got the 400; after two
\* GET /sse requests a second POST was handed to the second connection's transport.
C13_Witness ==
    /\ Len(posts) = 2
    /\ Len(conns) >= 2
    /\ posts[1].status = 400 /\ posts[1].via = 0
    /\ posts[2].status # 400 /\ posts[2].via = 2
====
